---- MODULE Spec2Model ----
(***************************************************************************)
(* A model of dumbstone (src/dumbstone.py): a GTP proxy between a          *)
(* controller and a Leela Zero subprocess.                                 *)
(*                                                                         *)
(* Representation.                                                         *)
(*   - Win percentages are fixed-point numbers in hundredths of a percent  *)
(*     (61.30% is 6130).  The text of a percentage as Leela Zero prints it *)
(*     ("61.30") is the pair <<61, 30>>, and float() converts it.          *)
(*   - A line of the subordinate's stdout is a record                      *)
(*        [k |-> "ok" | "err" | "blank" | "text", arg |-> ..., re |-> n]   *)
(*     "ok" lines start with "=", "err" lines with "?"; arg is the text    *)
(*     after the marker; re is a history tag: the index (in sent) of the   *)
(*     command the subordinate was answering when it emitted the line, and *)
(*     0 for a line it emitted before the command now handled was read     *)
(*     and for a line the proxy writes itself.                             *)
(*   - A line of the subordinate's stderr is a record                      *)
(*        [k |-> "sentinel" | "var" | "novar" | "chat", move, vtok,        *)
(*         visits, win, re]                                                *)
(*     "sentinel" lines start with "NN eval="; "var" lines match           *)
(*     _VARIATION; "novar" is a candidate line without the "(V: ..%)"      *)
(*     group and "chat" is any other text (neither matches).  vtok says    *)
(*     whether the second group of the match reads as an integer ("int")   *)
(*     or not ("pct", such as "55.2%").                                    *)
(***************************************************************************)
EXTENDS Integers, Sequences, FiniteSets, TLC

VARIABLES
    pc,                \* position of the control thread
    changed,           \* main: local of the current loop iteration
    count,             \* main: idle iteration counter
    slept,             \* main: whether the last iteration called time.sleep
    stdin_q,           \* queue of controller commands (start_reader(sys.stdin))
    lz_in,             \* the subordinate's stdin pipe: commands not yet processed
    out_pipe,          \* the subordinate's stdout stream: lines not yet read by its reader
    err_pipe,          \* the subordinate's stderr stream: lines not yet read by its reader
    lz_out,            \* LzWrapper._lz_out
    lz_err,            \* LzWrapper._lz_err
    ctl_out,           \* history: the lines written to sys.stdout since the last
                       \* command was read
    sent,              \* history: the commands passed to the subordinate since the
                       \* last command that was passed on was read
    ncmds,             \* history: number of commands the controller has issued
    color,             \* genmove: parameter
    variations,        \* genmove / _read_variations: local
    chosen,            \* genmove: local
    dev,               \* genmove: local
    probability,       \* main: configuration (hundredths of a percent)
    min_visits,        \* main: configuration
    max_drop_percent,  \* main: configuration (hundredths of a percent)
    pass_terminates,   \* main: configuration
    idle_cap,          \* bound of the run: the idle iterations counted in a row
    lz_alive,          \* whether the subordinate process (self._lz) is running
    cyc                \* history of the current (or last) command's handling

vars == <<pc, changed, count, slept, stdin_q, lz_in, out_pipe, err_pipe, lz_out,
          lz_err, ctl_out, sent, ncmds, color, variations, chosen, dev,
          probability, min_visits, max_drop_percent, pass_terminates, idle_cap,
          lz_alive, cyc>>

config == <<probability, min_visits, max_drop_percent, pass_terminates, idle_cap>>

-----------------------------------------------------------------------------
(* Bounds *)

\* the longest candidate list handed to the Move Selector in SpecSel
MaxVars == 3

\* how many commands the controller issues
MaxCmds == 2

\* the longest candidate block the subordinate prints
MaxBlock == 2

\* how many idle iterations in a row the control loop is followed through
MaxIdle == 2

\* how many lines a stream carries in SpecQueue
MaxLines == 4

-----------------------------------------------------------------------------
(* Values *)

\* Python's None
None == "None"

abs(x) == IF x < 0 THEN -x ELSE x

\* float(percent_s) for the text <<whole, hundredths>> of a percentage
float(s) == s[1] * 100 + s[2]

-----------------------------------------------------------------------------
(* LzWrapper._most_suitable *)

too_bad_reversed(top_percent, percent, max_drop) == percent - top_percent > max_drop

\* line 202: the max-drop rule
too_bad(top_percent, percent, max_drop) == top_percent - percent > max_drop

more_suitable_le(deviation, chosen_dev) ==
    \/ chosen_dev = << >>
    \/ abs(deviation) <= abs(chosen_dev[1])

\* line 208: strict improvement (chosen_dev is << >> for None, <<d>> otherwise)
more_suitable(deviation, chosen_dev) ==
    \/ chosen_dev = << >>
    \/ abs(deviation) < abs(chosen_dev[1])

\* lines 189-191: the locals before the loop; broke records the break of line 216
suitable_start == [top_percent |-> << >>, chosen |-> None, chosen_dev |-> << >>,
                   broke |-> FALSE]

\* lines 193-216: one iteration of the loop, for the variation var = <<move, win>>
suitable_iter(st, var, target, max_drop, pass_term) ==
    LET percent == float(var[2])
        top == IF st.top_percent = << >> THEN percent ELSE st.top_percent[1]
        st1 == [st EXCEPT !.top_percent = <<top>>]
    IN  IF too_bad(top, percent, max_drop)
        THEN st1
        ELSE LET deviation == percent - target
                 st2 == IF more_suitable(deviation, st1.chosen_dev)
                        THEN [st1 EXCEPT !.chosen = var[1],
                                         !.chosen_dev = <<deviation>>]
                        ELSE st1
             IN  IF var[1] = "pass" /\ pass_term
                 THEN [st2 EXCEPT !.broke = TRUE]
                 ELSE st2

RECURSIVE suitable_loop(_, _, _, _, _, _)
suitable_loop(st, i, vs, target, max_drop, pass_term) ==
    IF i > Len(vs) \/ st.broke
    THEN st
    ELSE suitable_loop(suitable_iter(st, vs[i], target, max_drop, pass_term),
                       i + 1, vs, target, max_drop, pass_term)

\* lines 184-218: returns <<chosen, chosen_dev>>
_most_suitable(vs, target, max_drop, pass_term) ==
    LET st == suitable_loop(suitable_start, 1, vs, target, max_drop, pass_term)
    IN  <<st.chosen, st.chosen_dev>>

-----------------------------------------------------------------------------
(* Lines and commands *)

OutLine(k, arg, re) == [k |-> k, arg |-> arg, re |-> re]

Reply_resign(arg) == OutLine("ok", "resign", 0)

\* "= <arg>\r\n" as the proxy writes it to sys.stdout
Reply(arg) == OutLine("ok", arg, 0)

\* the second line of a "...\r\n\r\n" write of the proxy
EmptyLine == OutLine("blank", "", 0)

ErrLine(k, move, vtok, visits, win, re) ==
    [k |-> k, move |-> move, vtok |-> vtok, visits |-> visits, win |-> win, re |-> re]

Sentinel(re) == ErrLine("sentinel", "", "int", 0, <<0, 0>>, re)

\* a command line, as the sequence of its words
Cmd(words) == [words |-> words]

\* cmd.strip(): the words without the end of the line
strip(cmd) == cmd.words

\* line 364: cmd[:8] == "genmove " (a command line starts with its first word)
is_genmove(cmd) ==
    /\ Len(cmd.words) >= 2
    /\ cmd.words[1] = "genmove"

\* line 353
is_quit(cmd) == strip(cmd) = <<"quit">>

answered_locally_name_only(cmd) == strip(cmd) = <<"name">>

\* lines 356 and 359: the commands the proxy answers itself
answered_locally(cmd) == strip(cmd) \in { <<"name">>, <<"version">> }

\* the first character of a colour word
FirstChar(w) == CASE w = "black" -> "b"
                  [] w = "white" -> "w"
                  [] OTHER -> w

\* line 365: color = cmd[8]
cmd_color(cmd) == FirstChar(cmd.words[2])

\* out[0:1] == '='
starts_eq_never(out) == FALSE

starts_eq(out) == out.k = "ok"

\* out[0:1] in ['=', '?']
starts_eq_or_q(out) == out.k \in {"ok", "err"}

\* line[:8] == 'NN eval='
is_sentinel_or_var(line) == line.k \in { "sentinel", "var" }

is_sentinel(line) == line.k = "sentinel"

\* LzWrapper._VARIATION.match(line)
VARIATION_match(line) == line.k = "var"

-----------------------------------------------------------------------------
(* The environment: the controller and the subordinate *)

Commands == { Cmd(<<"name">>), Cmd(<<"version">>), Cmd(<<"quit">>),
              Cmd(<<"genmove", "b">>), Cmd(<<"clear_board">>) }

\* the lines of a candidate block, as the subordinate answering command re prints them
BlockLines(re) ==
    { ErrLine("var", "D4", "int", 9, <<70, 0>>, re),
      ErrLine("var", "C3", "int", 9, <<55, 0>>, re),
      ErrLine("var", "Q16", "int", 1, <<45, 0>>, re),
      ErrLine("var", "pass", "int", 1, <<30, 0>>, re),
      ErrLine("var", "D4", "pct", 0, <<61, 30>>, re),
      ErrLine("novar", "D4", "int", 9, <<0, 0>>, re) }

RECURSIVE SeqsUpTo(_, _)
SeqsUpTo(S, n) ==
    IF n = 0 THEN { << >> }
    ELSE LET shorter == SeqsUpTo(S, n - 1)
         IN  shorter \cup { Append(s, x) : s \in { t \in shorter : Len(t) = n - 1 }, x \in S }

\* what the subordinate may print on stderr when a search begins or ends without
\* a candidate block (a pass, a resignation, pondering after "play")
Chatter(re) == { << >>, << Sentinel(re) >> }

\* what the subordinate prints on stderr for a search that ends in a move: text,
\* the sentinel, the candidate block, the sentinel of the next search
Framed(pre, block, re) == pre \o << Sentinel(re) >> \o block \o << Sentinel(re) >>

\* the text before the block: nothing, or the end of an earlier block
Preludes(re) == { << >>, << ErrLine("var", "C3", "int", 9, <<55, 0>>, re) >> }

\* the candidate blocks of the session
SessionBlocks(re) ==
    { << ErrLine("var", "D4", "int", 9, <<70, 0>>, re),
         ErrLine("var", "C3", "int", 9, <<55, 0>>, re) >>,
      << ErrLine("var", "Q16", "int", 1, <<45, 0>>, re) >> }

SearchOutput(re) ==
    { Framed(pre, block, re) : pre \in Preludes(re), block \in SessionBlocks(re) }

\* the answers of the subordinate to the command cmd, the re-th it receives:
\* <<lines on stdout, lines on stderr>>
Answers(cmd, re) ==
    IF cmd.words[1] = "genmove"
    THEN { << << OutLine("ok", m, re), OutLine("blank", "", re) >>, e >> :
             m \in { "pass", "resign" }, e \in Chatter(re) }
         \cup { << << OutLine("ok", "D4", re), OutLine("blank", "", re) >>, e >> :
             e \in SearchOutput(re) }
         \cup { << << OutLine("err", "", re), OutLine("blank", "", re) >>, << >> >> }
    ELSE { << << OutLine(k, "", re), OutLine("blank", "", re) >>, e >> :
             k \in { "ok", "err" },
             e \in IF cmd.words[1] = "play" THEN Chatter(re) ELSE { << >> } }

\* The controller writes a command line and the reader of sys.stdin queues it.
\* The control thread looks at stdin_q only in line 349, so a command that
\* arrives while it is elsewhere is a command that arrives just before line 349.
Controller ==
    /\ ncmds < MaxCmds
    /\ pc = "dispatch"
    /\ \E cmd \in Commands : stdin_q' = Append(stdin_q, cmd)
    /\ ncmds' = ncmds + 1
    /\ UNCHANGED <<pc, changed, count, slept, lz_in, out_pipe, err_pipe, lz_out,
                   lz_err, ctl_out, sent, color, variations, chosen, dev,
                   config, lz_alive, cyc>>

\* the subordinate reads the next command and prints its answer
Engine ==
    /\ lz_alive = TRUE
    /\ lz_in # << >>
    /\ LET cmd == Head(lz_in)
           re == Len(sent) - Len(lz_in) + 1
       IN  \E a \in Answers(cmd, re) :
             /\ out_pipe' = out_pipe \o a[1]
             /\ err_pipe' = err_pipe \o a[2]
    /\ lz_in' = Tail(lz_in)
    /\ UNCHANGED <<pc, changed, count, slept, stdin_q, lz_out, lz_err, ctl_out,
                   sent, ncmds, color, variations, chosen, dev,
                   config, lz_alive, cyc>>

-----------------------------------------------------------------------------
(* stream_reader: one thread per stream of the subordinate *)

stream_reader_out_lifo ==
    /\ out_pipe # << >>
    /\ lz_out' = << Head(out_pipe) >> \o lz_out
    /\ out_pipe' = Tail(out_pipe)
    /\ UNCHANGED <<pc, changed, count, slept, stdin_q, lz_in, err_pipe, lz_err,
                   ctl_out, sent, ncmds, color, variations, chosen, dev,
                   config, lz_alive, cyc>>

\* lines 21-25 for self._lz.stdout
stream_reader_out ==
    /\ out_pipe # << >>
    /\ lz_out' = Append(lz_out, Head(out_pipe))
    /\ out_pipe' = Tail(out_pipe)
    /\ UNCHANGED <<pc, changed, count, slept, stdin_q, lz_in, err_pipe, lz_err,
                   ctl_out, sent, ncmds, color, variations, chosen, dev,
                   config, lz_alive, cyc>>

\* lines 21-25 for self._lz.stderr
stream_reader_err ==
    /\ err_pipe # << >>
    /\ lz_err' = Append(lz_err, Head(err_pipe))
    /\ err_pipe' = Tail(err_pipe)
    /\ UNCHANGED <<pc, changed, count, slept, stdin_q, lz_in, out_pipe, lz_out,
                   ctl_out, sent, ncmds, color, variations, chosen, dev,
                   config, lz_alive, cyc>>

-----------------------------------------------------------------------------
(* The control thread: main and LzWrapper *)

\* line 375: the number of idle iterations after which the loop sleeps
IdleLimit == 10


\* the history of one command's handling: the events of the handling in order,
\* the lines it took from each queue and the lines it wrote to sys.stdout
CycStart(kind) == [kind |-> kind, ev |-> << >>, out_taken |-> << >>,
                   err_taken |-> << >>, written |-> << >>, error |-> ""]

\* when a handler returns, its locals are gone: the history keeps the events and
\* the lines written, not the lines taken from the queues
Returned(c) == [c EXCEPT !.out_taken = << >>, !.err_taken = << >>]

\* lines 131-142: pass_to_lz(command), while the subordinate runs.  When it has
\* exited, the read end of its stdin pipe is closed and the flush of line 142
\* raises BrokenPipeError.
pass_to_lz(command) ==
    /\ lz_in' = Append(lz_in, command)
    /\ sent' = Append(sent, command)

\* the lines of q, told to be older than the command now read
aged(q) == [i \in 1..Len(q) |-> [q[i] EXCEPT !.re = 0]]

\* pass_to_lz(command) for the first command of a handler: the histories start
\* again
pass_first(command) ==
    /\ lz_in' = Append(lz_in, command)
    /\ sent' = << command >>
    /\ out_pipe' = aged(out_pipe)
    /\ err_pipe' = aged(err_pipe)
    /\ lz_out' = aged(lz_out)
    /\ lz_err' = aged(lz_err)

\* lines 339-345: dump_stderr() to os.devnull (line 76: _debug_lz is False),
\* dump_stdout() to sys.stdout
main_poll ==
    /\ pc = "poll"
    /\ changed' = (lz_err # << >> \/ lz_out # << >>)
    /\ lz_err' = << >>
    /\ ctl_out' = ctl_out \o lz_out
    /\ lz_out' = << >>
    /\ pc' = "dispatch"
    /\ UNCHANGED <<count, slept, stdin_q, lz_in, out_pipe, err_pipe, sent, ncmds,
                   color, variations, chosen, dev, config, lz_alive, cyc>>

\* lines 372-376: stdin_q.get_nowait() raises Empty.  The counter only matters
\* through count > 10, so it is not counted beyond IdleLimit + 1.  An iteration
\* that would count beyond idle_cap is not followed: it changes nothing else.
main_idle ==
    /\ pc = "dispatch"
    /\ stdin_q = << >>
    /\ changed \/ count < idle_cap
    /\ LET c == IF ~changed /\ count <= IdleLimit THEN count + 1 ELSE count
       IN  /\ count' = c
           /\ slept' = (c > IdleLimit)
    /\ pc' = "poll"
    /\ UNCHANGED <<changed, stdin_q, lz_in, out_pipe, err_pipe, lz_out, lz_err,
                   ctl_out, sent, ncmds, color, variations, chosen, dev, config, lz_alive, cyc>>

\* lines 349-355: quit is passed on and the proxy exits
main_quit ==
    /\ pc = "dispatch"
    /\ stdin_q # << >>
    /\ lz_alive
    /\ is_quit(Head(stdin_q))
    /\ stdin_q' = Tail(stdin_q)
    /\ changed' = TRUE
    /\ count' = 0
    /\ slept' = FALSE
    /\ pass_first(Head(stdin_q))
    /\ ctl_out' = << >>
    /\ cyc' = [CycStart("quit") EXCEPT !.ev = <<"send">>]
    /\ pc' = "exited"
    /\ UNCHANGED <<ncmds, color, variations, chosen, dev, config, lz_alive>>

\* lines 356-358: "= Dumbstone\r\n\r\n"
main_name ==
    /\ pc = "dispatch"
    /\ stdin_q # << >>
    /\ ~is_quit(Head(stdin_q))
    /\ strip(Head(stdin_q)) = <<"name">>
    /\ stdin_q' = Tail(stdin_q)
    /\ changed' = TRUE
    /\ count' = 0
    /\ slept' = FALSE
    /\ ctl_out' = << Reply("Dumbstone"), EmptyLine >>
    /\ cyc' = [CycStart("name") EXCEPT !.written = << Reply("Dumbstone"), EmptyLine >>]
    /\ pc' = "poll"
    /\ UNCHANGED <<lz_in, out_pipe, err_pipe, lz_out, lz_err, sent, ncmds, color,
                   variations, chosen, dev, config, lz_alive>>

\* lines 295-310: the text of the version reply depends on the configuration
_version(target, max_drop, pass_term) ==
    << Reply(<<"v0.3", target, max_drop, pass_term>>), EmptyLine >>

\* lines 359-363
main_version ==
    /\ pc = "dispatch"
    /\ stdin_q # << >>
    /\ ~is_quit(Head(stdin_q))
    /\ strip(Head(stdin_q)) = <<"version">>
    /\ stdin_q' = Tail(stdin_q)
    /\ changed' = TRUE
    /\ count' = 0
    /\ slept' = FALSE
    /\ LET version == _version(probability, max_drop_percent, pass_terminates)
       IN  /\ ctl_out' = version
           /\ cyc' = [CycStart("version") EXCEPT !.written = version]
    /\ pc' = "poll"
    /\ UNCHANGED <<lz_in, out_pipe, err_pipe, lz_out, lz_err, sent, ncmds, color,
                   variations, chosen, dev, config, lz_alive>>

\* lines 364-368 and 234-235: genmove sends "genmove <color>" and waits
main_genmove ==
    /\ pc = "dispatch"
    /\ stdin_q # << >>
    /\ lz_alive
    /\ ~is_quit(Head(stdin_q))
    /\ ~answered_locally(Head(stdin_q))
    /\ is_genmove(Head(stdin_q))
    /\ stdin_q' = Tail(stdin_q)
    /\ changed' = TRUE
    /\ count' = 0
    /\ slept' = FALSE
    /\ color' = cmd_color(Head(stdin_q))
    /\ pass_first(Cmd(<<"genmove", color'>>))
    /\ ctl_out' = << >>
    /\ cyc' = [CycStart("genmove") EXCEPT !.ev = <<"send genmove">>]
    /\ pc' = "wait_move"
    /\ UNCHANGED <<ncmds, variations, chosen, dev, config, lz_alive>>

\* lines 369-370: any other command is passed on as it is
main_passthrough ==
    /\ pc = "dispatch"
    /\ stdin_q # << >>
    /\ lz_alive
    /\ ~is_quit(Head(stdin_q))
    /\ ~answered_locally(Head(stdin_q))
    /\ ~is_genmove(Head(stdin_q))
    /\ stdin_q' = Tail(stdin_q)
    /\ changed' = TRUE
    /\ count' = 0
    /\ slept' = FALSE
    /\ pass_first(Head(stdin_q))
    /\ ctl_out' = << >>
    /\ cyc' = [CycStart("passthrough") EXCEPT !.ev = <<"send">>]
    /\ pc' = "until_ready"
    /\ UNCHANGED <<ncmds, color, variations, chosen, dev, config, lz_alive>>

ends_dump_eq_only(out) == starts_eq(out)

\* line 128: the lines that end dump_stdout_until_ready
ends_dump(out) == starts_eq_or_q(out)

\* lines 119-129: one turn of the loop of dump_stdout_until_ready
dump_stdout_until_ready ==
    /\ pc = "until_ready"
    /\ lz_out # << >>
    /\ LET out == Head(lz_out)
       IN  /\ lz_out' = Tail(lz_out)
           /\ ctl_out' = Append(ctl_out, out)
           /\ cyc' = IF ends_dump(out)
                      THEN Returned([cyc EXCEPT !.written = Append(@, out),
                                                !.ev = Append(@, "reply")])
                      ELSE [cyc EXCEPT !.out_taken = Append(@, out),
                                       !.written = Append(@, out)]
           /\ pc' = IF ends_dump(out) THEN "poll" ELSE "until_ready"
    /\ UNCHANGED <<changed, count, slept, stdin_q, lz_in, out_pipe, err_pipe, lz_err,
                   sent, ncmds, color, variations, chosen, dev, config, lz_alive>>

-----------------------------------------------------------------------------
(* LzWrapper.genmove *)

accepted_as_is_resign(move) == move = "resign"

\* lines 241-249: the moves of the subordinate that are replied as they are
accepted_as_is(move) == move \in { "resign", "pass" }

\* lines 144-151 and 238-249: one turn of the loop of _wait_for_move, and, on the
\* reply, the short-circuit of genmove
genmove_wait_for_move ==
    /\ pc = "wait_move"
    /\ lz_out # << >>
    /\ LET out == Head(lz_out)
           move == out.arg
       IN  /\ lz_out' = Tail(lz_out)
           /\ IF starts_eq(out)
              THEN IF accepted_as_is(move)
                   THEN /\ ctl_out' = Append(ctl_out, Reply(move))
                        /\ cyc' = Returned([cyc EXCEPT
                                     !.written = Append(@, Reply(move)),
                                     !.ev = @ \o <<"move", "reply">>])
                        /\ pc' = "poll"
                        /\ color' = None
                   ELSE /\ ctl_out' = ctl_out
                        /\ cyc' = [cyc EXCEPT !.out_taken = Append(@, out),
                                              !.ev = Append(@, "move")]
                        /\ pc' = "wait_start"
                        /\ color' = color
              ELSE /\ ctl_out' = Append(ctl_out, out)
                   /\ cyc' = [cyc EXCEPT !.out_taken = Append(@, out),
                                         !.written = Append(@, out)]
                   /\ pc' = "wait_move"
                   /\ color' = color
    /\ UNCHANGED <<changed, count, slept, stdin_q, lz_in, out_pipe, err_pipe, lz_err,
                   sent, ncmds, variations, chosen, dev, config, lz_alive>>

\* lines 251-258: one turn of the loop that waits for the start of the variations
genmove_wait_variations ==
    /\ pc = "wait_start"
    /\ lz_err # << >>
    /\ LET line == Head(lz_err)
       IN  /\ lz_err' = Tail(lz_err)
           /\ cyc' = [cyc EXCEPT !.err_taken = Append(@, line),
                                 !.ev = IF is_sentinel(line) THEN Append(@, "start") ELSE @]
           /\ pc' = IF is_sentinel(line) THEN "read_variations" ELSE "wait_start"
           /\ variations' = IF is_sentinel(line) THEN << >> ELSE variations
    /\ UNCHANGED <<changed, count, slept, stdin_q, lz_in, out_pipe, err_pipe, lz_out,
                   ctl_out, sent, ncmds, color, chosen, dev, config, lz_alive>>

keeps_visits_only(line, visits_wanted) == line.visits >= visits_wanted

\* line 167: (int(visits) >= min_visits) or (move == 'pass'), for a line whose
\* visits read as an integer
keeps(line, visits_wanted) == line.visits >= visits_wanted \/ line.move = "pass"

\* line 167: int(visits) raises ValueError
int_raises(line) == line.vtok # "int"

\* lines 156-171: one turn of the loop of _read_variations for a line that does
\* not end the block
genmove_read_variation ==
    /\ pc = "read_variations"
    /\ lz_err # << >>
    /\ LET line == Head(lz_err)
       IN  /\ ~is_sentinel(line)
           /\ lz_err' = Tail(lz_err)
           /\ IF VARIATION_match(line) /\ int_raises(line)
              THEN /\ pc' = "crashed"
                   /\ cyc' = [cyc EXCEPT !.err_taken = Append(@, line),
                                         !.error = "ValueError"]
                   /\ variations' = variations
              ELSE /\ pc' = "read_variations"
                   /\ cyc' = [cyc EXCEPT !.err_taken = Append(@, line)]
                   /\ variations' =
                        IF VARIATION_match(line) /\ keeps(line, min_visits)
                        THEN Append(variations, <<line.move, line.win>>)
                        ELSE variations
    /\ UNCHANGED <<changed, count, slept, stdin_q, lz_in, out_pipe, err_pipe, lz_out,
                   ctl_out, sent, ncmds, color, chosen, dev, config, lz_alive>>

assert_stripped(vs) == FALSE

\* line 176: assert variations
assert_fails(vs) == vs = << >>

\* line 265: "{:.2f}".format(dev) raises TypeError for None
format_raises(d) == d = << >>

\* lines 161-163, 172-182 and 262-268: the line that ends the block; then the
\* assertion, the Move Selector, the log line and "undo"
genmove_most_suitable ==
    /\ pc = "read_variations"
    /\ lz_err # << >>
    /\ LET line == Head(lz_err)
           res == _most_suitable(variations, probability, max_drop_percent,
                                 pass_terminates)
       IN  /\ is_sentinel(line)
           /\ lz_err' = Tail(lz_err)
           /\ IF assert_fails(variations)
              THEN /\ pc' = "crashed"
                   /\ cyc' = [cyc EXCEPT !.err_taken = Append(@, line),
                                         !.ev = Append(@, "end"),
                                         !.error = "AssertionError"]
                   /\ UNCHANGED <<chosen, dev, lz_in, sent>>
              ELSE /\ chosen' = res[1]
                   /\ dev' = res[2]
                   /\ IF format_raises(res[2])
                      THEN /\ pc' = "crashed"
                           /\ cyc' = [cyc EXCEPT !.err_taken = Append(@, line),
                                                 !.ev = @ \o <<"end", "selected">>,
                                                 !.error = "TypeError"]
                           /\ UNCHANGED <<lz_in, sent>>
                      ELSE IF lz_alive
                      THEN /\ pass_to_lz(Cmd(<<"undo">>))
                           /\ cyc' = [cyc EXCEPT !.err_taken = Append(@, line),
                                                 !.ev = @ \o <<"end", "selected", "send undo">>]
                           /\ pc' = "undo_ack"
                      ELSE /\ pc' = "crashed"
                           /\ cyc' = [cyc EXCEPT !.err_taken = Append(@, line),
                                                 !.ev = @ \o <<"end", "selected">>,
                                                 !.error = "BrokenPipeError"]
                           /\ UNCHANGED <<lz_in, sent>>
    /\ UNCHANGED <<changed, count, slept, stdin_q, out_pipe, err_pipe, lz_out,
                   ctl_out, ncmds, color, variations, config, lz_alive>>

ends_consume_any(out) == TRUE

\* line 116: the lines that end _consume_stdout_until_ready
ends_consume(out) == starts_eq(out)

\* lines 111-117 and 269-270: one turn of the loop that consumes the reply to
\* "undo"; then "play <color> <chosen>"
genmove_undo_consumed ==
    /\ pc = "undo_ack"
    /\ lz_out # << >>
    /\ LET out == Head(lz_out)
       IN  /\ lz_out' = Tail(lz_out)
           /\ IF ends_consume(out) /\ lz_alive
              THEN /\ pass_to_lz(Cmd(<<"play", color, chosen>>))
                   /\ cyc' = [cyc EXCEPT !.out_taken = Append(@, out),
                                         !.ev = @ \o <<"undo ack", "send play">>]
                   /\ pc' = "play_ack"
              ELSE IF ends_consume(out)
              THEN /\ pc' = "crashed"
                   /\ cyc' = [cyc EXCEPT !.out_taken = Append(@, out),
                                         !.ev = Append(@, "undo ack"),
                                         !.error = "BrokenPipeError"]
                   /\ UNCHANGED <<lz_in, sent>>
              ELSE /\ cyc' = [cyc EXCEPT !.out_taken = Append(@, out)]
                   /\ pc' = "undo_ack"
                   /\ UNCHANGED <<lz_in, sent>>
    /\ UNCHANGED <<changed, count, slept, stdin_q, out_pipe, err_pipe, lz_err,
                   ctl_out, ncmds, color, variations, chosen, dev, config, lz_alive>>

\* lines 111-117 and 271-275: one turn of the loop that consumes the reply to
\* "play"; then the reply to the controller
genmove_play_consumed ==
    /\ pc = "play_ack"
    /\ lz_out # << >>
    /\ LET out == Head(lz_out)
       IN  /\ lz_out' = Tail(lz_out)
           /\ IF ends_consume(out)
              THEN /\ ctl_out' = Append(ctl_out, Reply(chosen))
                   /\ cyc' = Returned([cyc EXCEPT
                                !.written = Append(@, Reply(chosen)),
                                !.ev = @ \o <<"play ack", "reply">>])
                   /\ pc' = "poll"
                   /\ color' = None
                   /\ variations' = << >>
                   /\ chosen' = None
                   /\ dev' = << >>
              ELSE /\ ctl_out' = ctl_out
                   /\ cyc' = [cyc EXCEPT !.out_taken = Append(@, out)]
                   /\ pc' = "play_ack"
                   /\ UNCHANGED <<color, variations, chosen, dev>>
    /\ UNCHANGED <<changed, count, slept, stdin_q, lz_in, out_pipe, err_pipe, lz_err,
                   sent, ncmds, config, lz_alive>>

-----------------------------------------------------------------------------
(* The session *)

\* the configurations of dumbstone.ini the session is checked with
Policies ==
    { [target |-> 5000, visits |-> 0, drop |-> 10000, pass |-> FALSE],
      [target |-> 5000, visits |-> 5, drop |-> 2000, pass |-> TRUE],
      [target |-> 5000, visits |-> 0, drop |-> -100, pass |-> FALSE] }

\* lines 319-337: the state when main enters its loop
Init ==
    /\ pc = "poll"
    /\ changed = FALSE
    /\ count = 0
    /\ slept = FALSE
    /\ stdin_q = << >>
    /\ lz_in = << >>
    /\ out_pipe = << >>
    /\ err_pipe = << >>
    /\ lz_out = << >>
    /\ lz_err = << >>
    /\ ctl_out = << >>
    /\ sent = << >>
    /\ ncmds = 0
    /\ color = None
    /\ variations = << >>
    /\ chosen = None
    /\ dev = << >>
    /\ \E p \in Policies :
         /\ probability = p.target
         /\ min_visits = p.visits
         /\ max_drop_percent = p.drop
         /\ pass_terminates = p.pass
    /\ idle_cap = MaxIdle
    /\ lz_alive = TRUE
    /\ cyc = CycStart("none")

Next ==
    \/ Controller
    \/ Engine
    \/ stream_reader_out
    \/ stream_reader_err
    \/ main_poll
    \/ main_idle
    \/ main_quit
    \/ main_name
    \/ main_version
    \/ main_genmove
    \/ main_passthrough
    \/ dump_stdout_until_ready
    \/ genmove_wait_for_move
    \/ genmove_wait_variations
    \/ genmove_read_variation
    \/ genmove_most_suitable
    \/ genmove_undo_consumed
    \/ genmove_play_consumed

Spec == Init /\ [][Next]_vars

-----------------------------------------------------------------------------
(* The Move Selector alone: _most_suitable applied to every candidate list of  *)
(* at most MaxVars candidates under every policy of a small grid               *)

SelMoves == { "D4", "C3", "Q16", "pass" }

SelWins == { <<30, 0>>, <<45, 0>>, <<55, 0>>, <<70, 25>> }

SelTargets == { 5000, 6000 }

SelDrops == { -100, 0, 2000, 10000 }

\* the lists _read_variations can return: not empty (line 176), and a move is
\* listed once
CandidateLists ==
    { vs \in SeqsUpTo(SelMoves \X SelWins, MaxVars) :
        /\ vs # << >>
        /\ \A i, j \in 1..Len(vs) : vs[i][1] = vs[j][1] => i = j }

\* the session is at rest
Quiet ==
    /\ changed = FALSE
    /\ count = 0
    /\ slept = FALSE
    /\ stdin_q = << >>
    /\ lz_in = << >>
    /\ out_pipe = << >>
    /\ err_pipe = << >>
    /\ ctl_out = << >>
    /\ ncmds = 0
    /\ idle_cap = 0
    /\ lz_alive = TRUE

InitSel ==
    /\ Quiet
    /\ pc = "select"
    /\ lz_out = << >>
    /\ lz_err = << >>
    /\ sent = << >>
    /\ color = "b"
    /\ variations \in CandidateLists
    /\ chosen = None
    /\ dev = << >>
    /\ probability \in SelTargets
    /\ min_visits = 0
    /\ max_drop_percent \in SelDrops
    /\ pass_terminates \in BOOLEAN
    /\ cyc = CycStart("genmove")

\* lines 262-263: the call of _most_suitable
select ==
    /\ pc = "select"
    /\ LET res == _most_suitable(variations, probability, max_drop_percent,
                                 pass_terminates)
       IN  /\ chosen' = res[1]
           /\ dev' = res[2]
    /\ pc' = "selected"
    /\ UNCHANGED <<changed, count, slept, stdin_q, lz_in, out_pipe, err_pipe, lz_out,
                   lz_err, ctl_out, sent, ncmds, color, variations, config, lz_alive, cyc>>

NextSel == select

SpecSel == InitSel /\ [][NextSel]_vars

-----------------------------------------------------------------------------
(* The Diagnostic Parser alone: a genmove cycle from the moment the move reply *)
(* was taken, with the whole stderr output of the search already queued        *)

ParsePolicies == Policies

\* what may follow the sentinel that ends the block
Postludes(re) == { << >>, << ErrLine("var", "Q16", "int", 9, <<45, 0>>, re) >> }

InitParse ==
    /\ Quiet
    /\ pc = "wait_start"
    /\ lz_out = << OutLine("blank", "", 1) >>
    /\ lz_err \in { Framed(pre, block, 1) \o post :
                      pre \in Preludes(1),
                      block \in SeqsUpTo(BlockLines(1), MaxBlock),
                      post \in Postludes(1) }
    /\ sent = << Cmd(<<"genmove", "b">>) >>
    /\ color = "b"
    /\ variations = << >>
    /\ chosen = None
    /\ dev = << >>
    /\ \E p \in ParsePolicies :
         /\ probability = p.target
         /\ min_visits = p.visits
         /\ max_drop_percent = p.drop
         /\ pass_terminates = p.pass
    /\ cyc = [CycStart("genmove") EXCEPT
                !.ev = <<"send genmove", "move">>,
                !.out_taken = << OutLine("ok", "D4", 1) >>]

NextParse ==
    \/ genmove_wait_variations
    \/ genmove_read_variation
    \/ genmove_most_suitable

SpecParse == InitParse /\ [][NextParse]_vars

-----------------------------------------------------------------------------
(* The session with a subordinate that may exit, followed through the whole    *)
(* idle backoff, under fair scheduling of the threads and of the subordinate   *)

\* the subordinate process ends (it crashes or is killed).  Its stdin is closed;
\* what it had printed can still be read from its pipes, which then are at end
\* of file, where the loop of line 21 ends and the reader thread returns.
lz_exit ==
    /\ lz_alive
    /\ lz_alive' = FALSE
    /\ UNCHANGED <<pc, changed, count, slept, stdin_q, lz_in, out_pipe, err_pipe,
                   lz_out, lz_err, ctl_out, sent, ncmds, color, variations, chosen,
                   dev, config, cyc>>

\* lines 354, 235 and 370 after the subordinate has exited: pass_to_lz raises
\* BrokenPipeError, which nothing catches
pass_to_lz_raises ==
    /\ pc = "dispatch"
    /\ stdin_q # << >>
    /\ ~lz_alive
    /\ is_quit(Head(stdin_q)) \/ ~answered_locally(Head(stdin_q))
    /\ stdin_q' = Tail(stdin_q)
    /\ changed' = TRUE
    /\ count' = 0
    /\ slept' = FALSE
    /\ ctl_out' = << >>
    /\ cyc' = [CycStart("broken") EXCEPT !.error = "BrokenPipeError"]
    /\ pc' = "crashed"
    /\ UNCHANGED <<lz_in, out_pipe, err_pipe, lz_out, lz_err, sent, ncmds, color,
                   variations, chosen, dev, config, lz_alive>>

\* lines 319-337, with the idle counter followed up to its end
InitLife ==
    /\ pc = "poll"
    /\ changed = FALSE
    /\ count = 0
    /\ slept = FALSE
    /\ stdin_q = << >>
    /\ lz_in = << >>
    /\ out_pipe = << >>
    /\ err_pipe = << >>
    /\ lz_out = << >>
    /\ lz_err = << >>
    /\ ctl_out = << >>
    /\ sent = << >>
    /\ ncmds = 0
    /\ color = None
    /\ variations = << >>
    /\ chosen = None
    /\ dev = << >>
    /\ \E p \in Policies :
         /\ probability = p.target
         /\ min_visits = p.visits
         /\ max_drop_percent = p.drop
         /\ pass_terminates = p.pass
    /\ idle_cap = IdleLimit + 2
    /\ lz_alive = TRUE
    /\ cyc = CycStart("none")

\* the steps of the control thread (the main thread of the proxy)
ControlThread ==
    \/ main_poll
    \/ main_idle
    \/ main_quit
    \/ main_name
    \/ main_version
    \/ main_genmove
    \/ main_passthrough
    \/ pass_to_lz_raises
    \/ dump_stdout_until_ready
    \/ genmove_wait_for_move
    \/ genmove_wait_variations
    \/ genmove_read_variation
    \/ genmove_most_suitable
    \/ genmove_undo_consumed
    \/ genmove_play_consumed

NextLife ==
    \/ Controller
    \/ Engine
    \/ lz_exit
    \/ stream_reader_out
    \/ stream_reader_err
    \/ ControlThread

\* every thread that can run does run, and a running subordinate answers
Fairness ==
    /\ WF_vars(ControlThread)
    /\ WF_vars(stream_reader_out)
    /\ WF_vars(stream_reader_err)
    /\ WF_vars(Engine)

SpecLife == InitLife /\ [][NextLife]_vars /\ Fairness

-----------------------------------------------------------------------------
(* The line queues alone: the subordinate has printed MaxLines lines on each   *)
(* stream in answer to a command that was passed through; the reader threads   *)
(* queue them while the control thread takes them, first in                    *)
(* dump_stdout_until_ready (blocking), then in the loop of main (non-blocking) *)

\* the lines of the subordinate's stdout, numbered: text, then "= ..." and the
\* empty line
OutStream ==
    [i \in 1..MaxLines |->
        OutLine(IF i = MaxLines - 1 THEN "ok" ELSE IF i = MaxLines THEN "blank" ELSE "text",
                i, 1)]

\* the lines of the subordinate's stderr, numbered by the visit count
ErrStream == [i \in 1..MaxLines |-> ErrLine("var", "D4", "int", i, <<50, 0>>, 1)]

InitQueue ==
    /\ pc = "until_ready"
    /\ changed = TRUE
    /\ count = 0
    /\ slept = FALSE
    /\ stdin_q = << >>
    /\ lz_in = << >>
    /\ out_pipe = OutStream
    /\ err_pipe = ErrStream
    /\ lz_out = << >>
    /\ lz_err = << >>
    /\ ctl_out = << >>
    /\ sent = << Cmd(<<"clear_board">>) >>
    /\ ncmds = 1
    /\ color = None
    /\ variations = << >>
    /\ chosen = None
    /\ dev = << >>
    /\ \E p \in Policies :
         /\ probability = p.target
         /\ min_visits = p.visits
         /\ max_drop_percent = p.drop
         /\ pass_terminates = p.pass
    /\ idle_cap = MaxIdle
    /\ lz_alive \in BOOLEAN
    /\ cyc = [CycStart("passthrough") EXCEPT !.ev = <<"send">>]

NextQueue ==
    \/ stream_reader_out
    \/ stream_reader_err
    \/ dump_stdout_until_ready
    \/ main_poll
    \/ main_idle

SpecQueue == InitQueue /\ [][NextQueue]_vars

-----------------------------------------------------------------------------
(* Properties of the Move Selector (SpecSel) *)

\* the candidates of vs that are not more than max_drop below the first one
NotDropped(vs, max_drop) ==
    { i \in 1..Len(vs) : ~(float(vs[1][2]) - float(vs[i][2]) > max_drop) }

Deviation(vs, i, target) == abs(float(vs[i][2]) - target)

\* the earliest of the candidates among I that are closest to target
Closest(vs, I, target) ==
    CHOOSE i \in I : \A j \in I :
        \/ Deviation(vs, i, target) < Deviation(vs, j, target)
        \/ Deviation(vs, i, target) = Deviation(vs, j, target) /\ i <= j

\* the candidates the scan reaches: with pass_term, those listed no later than
\* the first "pass" that is not dropped
Considered(vs, max_drop, pass_term) ==
    LET kept == NotDropped(vs, max_drop)
        passes == { i \in kept : vs[i][1] = "pass" }
    IN  IF pass_term /\ passes # {}
        THEN { i \in kept : \A p \in passes : i <= p }
        ELSE kept

\* C1 as stated: whenever some candidate is not filtered by the max-drop rule,
\* the move returned is the one of the earliest candidate closest to the target
\* among all the candidates that are not filtered, whatever pass_terminates is.
C1_ClosestOfAllKept ==
    (pc = "selected" /\ NotDropped(variations, max_drop_percent) # {}) =>
        chosen = variations[Closest(variations,
                                    NotDropped(variations, max_drop_percent),
                                    probability)][1]

\* C1 as amended: whenever some candidate is not filtered by the max-drop rule,
\* the move returned is the one of the earliest candidate closest to the target
\* among the candidates that are not filtered and, when pass_terminates is set,
\* are listed no later than the first "pass" that is not filtered.
C1_ClosestOfConsidered ==
    (pc = "selected" /\ NotDropped(variations, max_drop_percent) # {}) =>
        chosen = variations[Closest(variations,
                                    Considered(variations, max_drop_percent,
                                               pass_terminates),
                                    probability)][1]

\* two candidates tie for the smallest deviation, a third one is filtered, and
\* the earlier of the two is returned
C1_Witness ==
    /\ pc = "selected"
    /\ Cardinality(NotDropped(variations, max_drop_percent)) < Len(variations)
    /\ \E i, j \in NotDropped(variations, max_drop_percent) :
         /\ i < j
         /\ Deviation(variations, i, probability) = Deviation(variations, j, probability)
         /\ \A k \in NotDropped(variations, max_drop_percent) :
              Deviation(variations, i, probability) <= Deviation(variations, k, probability)
         /\ chosen = variations[i][1]

\* C2: a candidate whose win percent is more than max_drop_percent below the
\* win percent of the first candidate is never the move returned.
C2_NeverTooFarBelow ==
    pc = "selected" =>
        \A i \in 1..Len(variations) :
            float(variations[1][2]) - float(variations[i][2]) > max_drop_percent
                => chosen # variations[i][1]

\* a move is returned although a filtered candidate is closer to the target
C2_Witness ==
    /\ pc = "selected"
    /\ chosen # None
    /\ \E i \in 1..Len(variations) :
         /\ float(variations[1][2]) - float(variations[i][2]) > max_drop_percent
         /\ Deviation(variations, i, probability) < abs(dev[1])

\* C3 as stated: with pass_terminates set and "pass" in the list handed to the
\* Move Selector, no candidate listed after "pass" is the move returned.
C3_NothingAfterPass ==
    (pc = "selected" /\ pass_terminates) =>
        \A p, j \in 1..Len(variations) :
            (variations[p][1] = "pass" /\ j > p) => chosen # variations[j][1]

\* C9 as stated: the Move Selector never returns normally with no chosen move.
C9_NeverReturnsNone == pc = "selected" => chosen # None

-----------------------------------------------------------------------------
(* Properties of the session (Spec) and of the Diagnostic Parser (SpecParse) *)

IsMarker(l) == l.k \in { "ok", "err" }

\* the control thread takes the first line of the queue q in this step
Takes(q, p) == q # << >> /\ p = Tail(q)

\* C4: when the reply to genmove is "resign" or "pass", the proxy writes
\* "= resign" or "= pass" and goes back to the loop; in the whole cycle it took
\* nothing from the stderr queue and sent nothing but genmove, and the step
\* leaves the stderr queue as it is.
C4_ShortCircuit ==
    [][ ( /\ pc = "wait_move"
          /\ Takes(lz_out, lz_out')
          /\ Head(lz_out).k = "ok"
          /\ Head(lz_out).arg \in { "resign", "pass" } )
        => ( /\ pc' = "poll"
             /\ ctl_out' = Append(ctl_out, Reply(Head(lz_out).arg))
             /\ lz_err' = lz_err
             /\ cyc.err_taken = << >>
             /\ sent = << Cmd(<<"genmove", color>>) >>
             /\ sent' = sent
             /\ lz_in' = lz_in ) ]_vars

\* a cycle was cut short on "pass" while lines wait in the stderr queue
C4_Witness ==
    /\ pc = "poll"
    /\ cyc.kind = "genmove"
    /\ cyc.ev = <<"send genmove", "move", "reply">>
    /\ ctl_out # << >>
    /\ ctl_out[Len(ctl_out)] = Reply("pass")
    /\ lz_err # << >>

\* C5: a command that is passed through is sent to the subordinate as it is;
\* then every line taken from the stdout queue is written to the controller, in
\* order, one line a step, and the handler returns on the first line that
\* starts with "=" or "?", and on no other line.
C5_Passthrough ==
    /\ [](pc = "until_ready" =>
            /\ ctl_out = cyc.out_taken
            /\ \A i \in 1..Len(ctl_out) : ~IsMarker(ctl_out[i]))
    /\ [][ /\ (pc = "dispatch" /\ pc' = "until_ready") =>
                /\ sent' = << Head(stdin_q) >>
                /\ lz_in' = Append(lz_in, Head(stdin_q))
           /\ (pc = "until_ready" /\ Len(lz_out') < Len(lz_out)) =>
                /\ lz_out' = Tail(lz_out)
                /\ ctl_out' = Append(ctl_out, Head(lz_out))
                /\ pc' = IF IsMarker(Head(lz_out)) THEN "poll" ELSE "until_ready"
           /\ (pc = "until_ready" /\ pc' # pc) => Takes(lz_out, lz_out') ]_vars

\* a passthrough returned on an error reply after it relayed an older line, and
\* left the line after the reply in the queue
C5_Witness ==
    /\ pc = "poll"
    /\ cyc.kind = "passthrough"
    /\ Len(ctl_out) = 2
    /\ ctl_out[1].k = "blank"
    /\ ctl_out[2].k = "err"
    /\ lz_out # << >>

OverridePath == { "wait_start", "read_variations", "undo_ack", "play_ack" }

\* C6: on the override path the move is chosen before "undo" is sent, the reply
\* to "undo" is taken from the stdout queue before "play <color> <chosen>" is
\* sent, the reply to "play" is taken before the reply is written to the
\* controller, and no reply line is written to the controller before that.
C6_OverrideOrder ==
    /\ [](pc \in OverridePath =>
            \A i \in 1..Len(ctl_out) : ~IsMarker(ctl_out[i]))
    /\ [](pc = "undo_ack" =>
            /\ chosen # None
            /\ sent = << Cmd(<<"genmove", color>>), Cmd(<<"undo">>) >>)
    /\ [](pc = "play_ack" =>
            /\ sent = << Cmd(<<"genmove", color>>), Cmd(<<"undo">>),
                         Cmd(<<"play", color, chosen>>) >>
            /\ \E i \in 1..Len(cyc.out_taken) :
                 IsMarker(cyc.out_taken[i]) /\ cyc.out_taken[i].re = 2)
    /\ [][ (pc \in OverridePath /\ ctl_out' # ctl_out) =>
             /\ pc = "play_ack"
             /\ Takes(lz_out, lz_out')
             /\ IsMarker(Head(lz_out))
             /\ Head(lz_out).re = 3
             /\ ctl_out' = Append(ctl_out, Reply(chosen))
             /\ pc' = "poll" ]_vars

\* an override cycle is complete: the last line written is the reply with a move
\* that is not the subordinate's own
C6_Witness ==
    /\ pc = "poll"
    /\ cyc.kind = "genmove"
    /\ cyc.ev = <<"send genmove", "move", "start", "end", "selected", "send undo",
                  "undo ack", "send play", "play ack", "reply">>
    /\ sent = << Cmd(<<"genmove", "b">>), Cmd(<<"undo">>), Cmd(<<"play", "b", "C3">>) >>
    /\ ctl_out[Len(ctl_out)] = Reply("C3")

\* the index of the first sentinel of ls, 0 if there is none
FirstSentinel(ls) ==
    IF \E i \in 1..Len(ls) : ls[i].k = "sentinel"
    THEN CHOOSE i \in 1..Len(ls) :
           /\ ls[i].k = "sentinel"
           /\ \A j \in 1..(i - 1) : ls[j].k # "sentinel"
    ELSE 0

\* the lines of ls after its first sentinel and before its second one
Block(ls) ==
    LET f == FirstSentinel(ls)
        rest == SubSeq(ls, f + 1, Len(ls))
        g == FirstSentinel(rest)
    IN  IF f = 0 THEN << >>
        ELSE IF g = 0 THEN rest
        ELSE SubSeq(rest, 1, g - 1)

\* the records of the candidate lines of ls with at least visits_wanted visits,
\* and of those for "pass", in the order of ls
RECURSIVE Accepted(_, _)
Accepted(ls, visits_wanted) ==
    IF ls = << >> THEN << >>
    ELSE LET l == Head(ls)
             rest == Accepted(Tail(ls), visits_wanted)
         IN  IF l.k = "var" /\ (l.visits >= visits_wanted \/ l.move = "pass")
             THEN << <<l.move, l.win>> >> \o rest
             ELSE rest

\* C7: while the block is read, and after it, the candidate list holds the
\* records of exactly the matched lines of the block with visits >= min_visits
\* or the move "pass", in the order the lines were read.
C7_VisitFilter ==
    (\/ pc \in { "read_variations", "undo_ack" }
     \/ pc = "crashed" /\ cyc.error # "ValueError")
        => variations = Accepted(Block(cyc.err_taken), min_visits)

\* "pass" was kept with fewer than min_visits visits, after another move with
\* as few was dropped
C7_Witness ==
    /\ pc = "read_variations"
    /\ \E i \in 1..Len(variations) : variations[i][1] = "pass"
    /\ \E i, j \in 1..Len(Block(cyc.err_taken)) :
         LET b == Block(cyc.err_taken)
         IN  /\ i < j
             /\ b[i].k = "var" /\ b[i].move # "pass" /\ b[i].visits < min_visits
             /\ b[j].k = "var" /\ b[j].move = "pass" /\ b[j].visits < min_visits
    /\ Len(variations) = 1

\* C8: when the block ends with an empty candidate list, the cycle fails with an
\* assertion error: the Move Selector has chosen nothing, neither "undo" nor
\* "play" is sent, and nothing more is written to the controller.
C8_EmptyListFails ==
    /\ []((pc = "crashed" /\ cyc.error = "AssertionError") =>
            /\ chosen = None
            /\ sent = << Cmd(<<"genmove", color>>) >>
            /\ \A i \in 1..Len(ctl_out) : ~IsMarker(ctl_out[i]))
    /\ [][ /\ ( /\ pc = "read_variations"
                /\ Takes(lz_err, lz_err')
                /\ Head(lz_err).k = "sentinel"
                /\ variations = << >> )
              => ( /\ pc' = "crashed"
                   /\ cyc'.error = "AssertionError" )
           /\ pc = "crashed" =>
                ( /\ pc' = "crashed"
                  /\ sent' = sent
                  /\ lz_in' = lz_in
                  /\ ctl_out' = ctl_out
                  /\ chosen' = chosen ) ]_vars

\* a cycle failed on the assertion after a block whose only candidate had too
\* few visits
C8_Witness ==
    /\ pc = "crashed"
    /\ cyc.error = "AssertionError"
    /\ \E i \in 1..Len(Block(cyc.err_taken)) :
         Block(cyc.err_taken)[i].k = "var"

\* C10: "name" and "version" are answered with one reply block, and the step
\* sends nothing to the subordinate and takes nothing from its stdout; a
\* command other than quit, name, version and genmove is passed to the
\* subordinate as it is and handled by dump_stdout_until_ready.
C10_Dispatch ==
    [][ (pc = "dispatch" /\ Takes(stdin_q, stdin_q')) =>
          LET cmd == Head(stdin_q)
          IN  /\ cmd.words \in { <<"name">>, <<"version">> } =>
                   /\ lz_in' = lz_in
                   /\ sent' = sent
                   /\ lz_out' = lz_out
                   /\ out_pipe' = out_pipe
                   /\ Len(ctl_out') = 2
                   /\ ctl_out'[1].k = "ok"
                   /\ ctl_out'[2].k = "blank"
                   /\ pc' = "poll"
              /\ cmd.words[1] \notin { "quit", "name", "version", "genmove" } =>
                   /\ lz_in' = Append(lz_in, cmd)
                   /\ sent' = << cmd >>
                   /\ pc' = "until_ready" ]_vars

\* "version" was answered while a line of the subordinate waits in the stdout
\* queue
C10_Witness ==
    /\ pc = "poll"
    /\ cyc.kind = "version"
    /\ Len(ctl_out) = 2
    /\ lz_out # << >>

-----------------------------------------------------------------------------
(* Properties of the session's lifetime (SpecLife) *)

Stopped == pc \in { "exited", "crashed" }

\* C11 as stated, for the exit of the subordinate: once the subordinate process
\* has exited, the control loop eventually stops.
C11_StopsAfterExit == [](~lz_alive => <>Stopped)

-----------------------------------------------------------------------------
(* Properties of the line queues (SpecQueue) *)

IsSuffix(a, b) == \E k \in 0..Len(b) : a = SubSeq(b, k + 1, Len(b))

-----------------------------------------------------------------------------
(* More properties of the Diagnostic Parser (SpecParse) *)

\* C13 as stated: a line of the block that matches _VARIATION, the line
\* "D4 -> 55.2% (V: 61.30%) ..." with "55.2%" where the visits are among them,
\* is parsed without an error and the parser goes on reading the block; a line
\* without the "(V: ..%)" group is skipped: it raises no error, adds no record
\* and does not end the block.
C13_ParsesWithoutError ==
    [][ (pc = "read_variations" /\ Takes(lz_err, lz_err')) =>
          /\ Head(lz_err).k = "var" =>
               /\ pc' = "read_variations"
               /\ cyc'.error = ""
          /\ Head(lz_err).k = "novar" =>
               /\ pc' = "read_variations"
               /\ cyc'.error = ""
               /\ variations' = variations ]_vars

-----------------------------------------------------------------------------
(* Properties of the idle backoff (SpecLife) *)

\* C14 as stated, in the part about drained output: an iteration of the loop of
\* main in which a line of the subordinate was drained (changed is True) does
\* not sleep.
C14_NoSleepAfterOutput == (pc = "poll" /\ slept) => ~changed

-----------------------------------------------------------------------------
(* Properties of the candidate block in the session (Spec) *)

\* the positions of the sentinel lines of ls
Sentinels(ls) == { i \in 1..Len(ls) : ls[i].k = "sentinel" }

\* the records of the matching lines of ls
Records(ls) == { <<ls[i].move, ls[i].win>> : i \in { j \in 1..Len(ls) : ls[j].k = "var" } }

AfterSelection == { "undo_ack", "play_ack" }

\* C15: the lines genmove takes from the stderr queue before the first sentinel
\* give no candidate; the candidates are records of lines taken after the first
\* sentinel and before the second one; the second sentinel is the last line the
\* cycle takes from the stderr queue.
C15_BlockBetweenSentinels ==
    /\ [](pc = "wait_start" =>
            /\ variations = << >>
            /\ Sentinels(cyc.err_taken) = {})
    /\ [](pc = "read_variations" =>
            /\ Cardinality(Sentinels(cyc.err_taken)) = 1
            /\ \A i \in 1..Len(variations) :
                 variations[i] \in Records(Block(cyc.err_taken)))
    /\ [](pc \in AfterSelection =>
            /\ Cardinality(Sentinels(cyc.err_taken)) = 2
            /\ cyc.err_taken[Len(cyc.err_taken)].k = "sentinel"
            /\ \A i \in 1..Len(variations) :
                 variations[i] \in Records(Block(cyc.err_taken)))
    /\ [][ (pc \in AfterSelection) => ~(Takes(lz_err, lz_err')) ]_vars

\* the cycle took a candidate line before the first sentinel and made no
\* candidate of it, and a line that came after the second sentinel is in the
\* queue while the reply to "play" is awaited
C15_Witness ==
    /\ pc = "play_ack"
    /\ cyc.err_taken[1].k = "var"
    /\ cyc.err_taken[1].move = "C3"
    /\ \A i \in 1..Len(variations) : variations[i][1] # "C3"
    /\ lz_err # << >>

\* the lines of ls the subordinate printed before the command now handled was
\* passed to it
Stale(ls) == { i \in 1..Len(ls) : ls[i].re = 0 }

\* C16 as stated: in a genmove cycle the sentinel that starts the block, the
\* lines of the block and the sentinel that ends it were all printed by the
\* subordinate after the genmove command of the cycle was passed to it.
C16_NoStaleLineInBlock ==
    (cyc.kind = "genmove" /\ pc \in { "read_variations", "undo_ack", "play_ack" }) =>
        LET ls == cyc.err_taken
            f == FirstSentinel(ls)
        IN  \A i \in Stale(ls) : i < f

-----------------------------------------------------------------------------
(* Progress of a genmove cycle (SpecLife) *)

InGenmove == pc \in { "wait_move", "wait_start", "read_variations", "undo_ack", "play_ack" }

\* C17 as stated: while the subordinate runs and answers every command with a
\* line that starts with "=" or "?", a genmove cycle that has begun comes to an
\* end: the control thread returns to the loop of main (or the cycle fails with
\* an exception), whatever the replies to genmove, undo and play are.
C17_GenmoveReturns == [](InGenmove => <>(pc \in { "poll", "crashed" } \/ ~lz_alive))

-----------------------------------------------------------------------------
(* Properties of the reply of a genmove cycle (Spec) *)

\* the positions of the lines of ls that start with "="
OkLines(ls) == { i \in 1..Len(ls) : ls[i].k = "ok" }

\* the control thread is back in the loop of main after a genmove cycle
AfterGenmove == cyc.kind = "genmove" /\ pc \in { "poll", "dispatch" }

\* C18: while a genmove cycle runs no line that starts with "=" is written to
\* the controller; when it has returned, and until the next command is read,
\* exactly one such line has been written since the genmove command was read:
\* the "= <move>" line the proxy wrote itself, last in the cycle, and no "="
\* line of the subordinate.
C18_OneReplyLine ==
    /\ InGenmove => OkLines(ctl_out) = {}
    /\ AfterGenmove =>
         /\ Cardinality(OkLines(ctl_out)) = 1
         /\ \A i \in OkLines(ctl_out) :
              /\ ctl_out[i].re = 0
              /\ i = Len(cyc.written)
              /\ ctl_out[i] = cyc.written[i]

\* an override cycle has returned: the subordinate's replies to genmove, undo
\* and play were taken, a line of an earlier reply was forwarded during the
\* cycle, and one "=" line was written
C18_Witness ==
    /\ pc = "poll"
    /\ cyc.kind = "genmove"
    /\ Len(cyc.ev) = 10
    /\ Len(ctl_out) >= 2
    /\ Cardinality(OkLines(ctl_out)) = 1

\* C19: when an override cycle returns, the commands sent in it are
\* "genmove <color>", "undo" and "play <color> <move>" with the same colour, the
\* line written last is "= <move>" with the same move, and the move is the move
\* of a candidate line of the block read in the cycle.
C19_ReplyIsPlayedMove ==
    [][ (pc = "play_ack" /\ pc' = "poll") =>
          /\ Len(sent) = 3
          /\ sent[1].words[1] = "genmove"
          /\ sent[2].words = <<"undo">>
          /\ sent[3].words[1] = "play"
          /\ sent[3].words[2] = sent[1].words[2]
          /\ LET move == sent[3].words[3]
                 last == ctl_out'[Len(ctl_out')]
             IN  /\ last.k = "ok"
                 /\ last.arg = move
                 /\ \E r \in Records(Block(cyc.err_taken)) : r[1] = move ]_vars

\* an override cycle has returned with a move that is not the subordinate's own
\* and is neither the first nor the only candidate line the cycle took
C19_Witness ==
    /\ pc = "poll"
    /\ cyc.kind = "genmove"
    /\ Len(cyc.ev) = 10
    /\ sent[3] = Cmd(<<"play", "b", "Q16">>)
    /\ ctl_out[Len(ctl_out)].arg = "Q16"

\* the lines the step writes to the controller
Written(before, after) ==
    IF Len(after) >= Len(before) /\ SubSeq(after, 1, Len(before)) = before
    THEN SubSeq(after, Len(before) + 1, Len(after))
    ELSE after

\* C20 as stated, in the part about later reply lines: after a genmove cycle has
\* returned with its "= <move>" line as the last line written, the next line
\* written to the controller is an empty line and not a reply line.
C20_BlankBeforeNextReply ==
    [][ (AfterGenmove /\ ctl_out # << >> /\ ctl_out[Len(ctl_out)].k = "ok") =>
          LET new == Written(ctl_out, ctl_out')
          IN  new = << >> \/ new[1].k = "blank" ]_vars

====
